---- MODULE Spec2Model ----
(***************************************************************************)
(* Model of src/app.py: the two HTTP handlers api_status and api_apply,    *)
(* the helpers they call (ensure_configured, login, login_network,         *)
(* fetch_clients, get_containers, upsert_client) and the two external      *)
(* parties they talk to (the container runtime and the UniFi controller).  *)
(*                                                                         *)
(* Strings that the code lower-cases (MAC addresses) are tuples of         *)
(* one-character strings, so that str.lower() is computed, not assumed.    *)
(* A Python dict is a function whose domain is its key set; Optional[dict] *)
(* is a tuple of length 0 (None) or 1.                                     *)
(***************************************************************************)
EXTENDS Integers, Sequences, FiniteSets, TLC

\* ------------------------------------------------------------ bounds
\* Number of HTTP requests (status or apply) served during a run.
MaxReqs == 2
\* Number of times the set of running containers changes during a run.
MaxRuntimeChanges == 1

\* The handler threads: two requests can be in flight at the same time. A
\* thread that has answered a request keeps its locals until it takes the
\* next one.
Reqs == {1, 2}

\* ------------------------------------------------------------ strings
\* str.lower() on one character.
LowerChar(c) ==
  CASE c = "A" -> "a"
    [] c = "B" -> "b"
    [] OTHER -> c

\* str.lower() on a string (tuple of characters).
Lower(s) == [i \in DOMAIN s |-> LowerChar(s[i])]

\* dict.get(key) with the absent key read as the falsy value "".
Get(rec, k) == IF k \in DOMAIN rec THEN rec[k] ELSE ""

\* Mutant of Merge: {**b, **a}, the existing values win.
MergeExistingWins(a, b) ==
  [k \in (DOMAIN a) \cup (DOMAIN b) |-> IF k \in DOMAIN a THEN a[k] ELSE b[k]]

\* {**a, **b}: b's keys win, every other key of a is kept.
Merge(a, b) ==
  [k \in (DOMAIN a) \cup (DOMAIN b) |-> IF k \in DOMAIN b THEN b[k] ELSE a[k]]

\* ------------------------------------------------------------ inputs
\* Process configuration, read from the environment at import time.
Cfg(host, api_key, username, password, network_id) ==
  [host |-> host, api_key |-> api_key, username |-> username,
   password |-> password, network_id |-> network_id]

Configs ==
  { Cfg("h", "k", "", "", "net1"),   \* API key, default network id
    Cfg("h", "k", "u", "p", ""),     \* API key and credentials, no default
    Cfg("h", "", "u", "p", "net1"),  \* username and password, no API key
    Cfg("h", "", "u", "", "net1"),   \* username without password
    Cfg("h", "", "", "", ""),        \* host only
    Cfg("", "k", "u", "p", "net1") } \* no host

MacLower == <<"a", "a">>
MacUpper == <<"A", "A">>
MacMixed == <<"A", "a">>
MacOther == <<"b", "b">>
NoMac == <<>>

\* What the container runtime reports: one element per (container, network)
\* pair, in the order client.containers.list() and Networks.items() yield.
Inventories ==
  { <<>>,
    << [name |-> "plex", network |-> "br0", MacAddress |-> MacMixed,
        IPAddress |-> "10.0.0.50"],
       [name |-> "db", network |-> "br0", MacAddress |-> MacOther,
        IPAddress |-> ""] >>,
    << [name |-> "plex", network |-> "br0", MacAddress |-> MacLower,
        IPAddress |-> "10.0.0.50"],
       [name |-> "plex", network |-> "br1", MacAddress |-> MacUpper,
        IPAddress |-> "10.0.1.50"],
       [name |-> "idle", network |-> "none", MacAddress |-> NoMac,
        IPAddress |-> "10.0.0.9"] >> }

\* The controller's client records (the "data" list of rest/user).
Stores ==
  { <<>>,
    << [_id |-> "x0", name |-> "nomac"],
       [_id |-> "x1", mac |-> MacUpper, name |-> "old", network_id |-> "net1",
        note |-> "keep-me", use_fixedip |-> FALSE] >>,
    << [_id |-> "x2", mac |-> MacLower, name |-> "old", network |-> "legacy",
        use_fixed_ip |-> FALSE] >>,
    << [_id |-> "x3", mac |-> MacMixed, hostname |-> "host3"] >> }

\* Request bodies of POST /api/apply, by what
\* "request.get_json(force=True, silent=True) or {}" and "body.get('mac') or
\* ''" make of them. json is "none" (get_json gives None or another falsy
\* value: an unparseable body, null, false, 0, "", [] or {}; "or {}" then
\* yields the empty dict), "nondict" (a truthy value that is not an object:
\* a non-empty array or string, a non-zero number, true) or "object" (a
\* non-empty object). macv classifies the object's mac: "absent", "falsy" (a
\* falsy value that is not a string: null, false, 0, [] or {}), "truthy" (a
\* truthy value that is not a string: a non-zero number, true, a non-empty
\* array or object) or "string" (then mac holds its characters).
Bodies ==
  { [json |-> "none", macv |-> "absent", mac |-> NoMac],
    [json |-> "nondict", macv |-> "absent", mac |-> NoMac],
    [json |-> "object", macv |-> "absent", mac |-> NoMac],
    [json |-> "object", macv |-> "falsy", mac |-> NoMac],
    [json |-> "object", macv |-> "truthy", mac |-> NoMac],
    [json |-> "object", macv |-> "string", mac |-> NoMac],
    [json |-> "object", macv |-> "string", mac |-> MacMixed],
    [json |-> "object", macv |-> "string", mac |-> MacOther] }

\* Outcome of one HTTP round trip to the controller: a status code, or 0
\* when no HTTP response was received (connection refused, timeout).
UpstreamResults == {200, 403, 0}

\* ------------------------------------------------------------ helpers
\* Optional[dict]: None is <<>>, a dict d is <<d>>.
None == <<>>
Some(d) == <<d>>
IsNone(o) == Len(o) = 0

\* ensure_configured(): TRUE when it returns an error message.
ensure_configured(c) == c.host = "" \/ c.api_key = ""

\* get_containers(), the inner "if not mac or not ip: continue".
Usable(net) == net.MacAddress # NoMac /\ net.IPAddress # ""

\* get_containers(), the entry built for one attached network.
Entry(net) ==
  [name |-> net.name, network |-> net.network, mac |-> Lower(net.MacAddress),
   ip |-> net.IPAddress]

\* get_containers(), the list "containers", in iteration order.
RECURSIVE ContainerList(_)
ContainerList(raw) ==
  IF raw = <<>> THEN <<>>
  ELSE IF Usable(Head(raw))
       THEN <<Entry(Head(raw))>> \o ContainerList(Tail(raw))
       ELSE ContainerList(Tail(raw))

\* The largest element of a non-empty set of integers.
MaxOf(S) == CHOOSE x \in S : \A y \in S : y <= x

\* get_containers(), the dict "index": index[entry["mac"]] = entry, so the
\* last entry of a MAC wins.
ContainerIndex(containers) ==
  [m \in {containers[i].mac : i \in DOMAIN containers} |->
     containers[MaxOf({i \in DOMAIN containers : containers[i].mac = m})]]

\* fetch_clients(), "if c.get('mac')".
HasMac(c) == "mac" \in DOMAIN c /\ c.mac # NoMac

\* Mutant of ClientKey: the key is not lower-cased.
ClientKeyRaw(c) == c.mac

\* fetch_clients(), the key of one record: c.get("mac", "").lower().
ClientKey(c) == Lower(c.mac)

\* fetch_clients(): the dict comprehension over the "data" list; a later
\* record replaces an earlier one under the same key.
fetch_clients(data) ==
  LET with == {i \in DOMAIN data : HasMac(data[i])}
  IN [m \in {ClientKey(data[i]) : i \in with} |->
        data[MaxOf({i \in with : ClientKey(data[i]) = m})]]

\* dict.get(key) on an index: None when the key is absent.
Lookup(index, key) == IF key \in DOMAIN index THEN Some(index[key]) ELSE None

\* (existing or {}).get(k), absent read as "".
OptGet(existing, k) == IF IsNone(existing) THEN "" ELSE Get(existing[1], k)

\* Mutant of ResolveNetworkId: the chain ends in the site's default name
\* instead of UNIFI_NETWORK_ID, so something always resolves.
ResolveNetworkIdSite(existing, c) ==
  IF OptGet(existing, "network_id") # "" THEN OptGet(existing, "network_id")
  ELSE IF OptGet(existing, "network") # "" THEN OptGet(existing, "network")
  ELSE "default"

\* upsert_client(), the "a or b or c" chain that resolves network_id.
ResolveNetworkId(existing, c) ==
  IF OptGet(existing, "network_id") # "" THEN OptGet(existing, "network_id")
  ELSE IF OptGet(existing, "network") # "" THEN OptGet(existing, "network")
  ELSE c.network_id

\* Mutant of Desired: the fixed-IP flag is left out.
DesiredNoFlag(container, network_id) ==
  [name |-> container.name, fixed_ip |-> container.ip,
   network_id |-> network_id]

\* upsert_client(), the dict "desired".
Desired(container, network_id) ==
  [name |-> container.name, fixed_ip |-> container.ip, use_fixedip |-> TRUE,
   network_id |-> network_id]

\* upsert_client(), "if existing:" (None and the empty dict are falsy).
Truthy(existing) == ~IsNone(existing) /\ DOMAIN existing[1] # {}

\* upsert_client() up to the HTTP call: either the exception it raises
\* before any call (err), or the one write it issues (op, id, payload) and
\* the message it returns when that write succeeds.
upsert_client(container, existing, c) ==
  LET mac == Lower(container.mac)
      network_id == ResolveNetworkId(existing, c)
      desired == Desired(container, network_id)
  IN IF network_id = ""
       THEN [err |-> "network_id is required", op |-> "none", id |-> "",
             payload |-> None, msg |-> <<"network_id is required", mac>>]
     ELSE IF Truthy(existing)
       THEN IF "_id" \in DOMAIN existing[1]
              THEN [err |-> "", op |-> "put", id |-> existing[1]["_id"],
                    payload |-> Some(Merge(existing[1], desired)),
                    msg |-> <<"Updated", mac, container.name, container.ip>>]
              ELSE [err |-> "KeyError", op |-> "none", id |-> "",
                    payload |-> None, msg |-> <<"'_id'">>]
     ELSE [err |-> "", op |-> "post", id |-> "",
           payload |-> Some(Merge([mac |-> mac], desired)),
           msg |-> <<"Created", mac, container.name, container.ip>>]

\* api_status(), one element of router_list.
RouterRow(mac, data) ==
  [mac |-> mac,
   name |-> IF Get(data, "name") # "" THEN data.name ELSE Get(data, "hostname"),
   hostname |-> Get(data, "hostname"),
   fixed_ip |-> Get(data, "fixed_ip"),
   use_fixedip |-> IF "use_fixedip" \in DOMAIN data THEN data.use_fixedip
                   ELSE FALSE]

\* api_status(), router_list (as a set: the order is the dict's).
RouterList(clients) == {RouterRow(m, clients[m]) : m \in DOMAIN clients}

\* ------------------------------------------------------------ state
VARIABLES
  cfg,            \* the UNIFI_* module globals
  inventory,      \* what the container runtime would report now
  runtimeChanges, \* how often the inventory has changed
  store,          \* the controller's client records, in listing order
  lastWrite,      \* the last write the controller accepted (None: none yet)
  listed,         \* the MACs that status responses have listed so far
  started,        \* how many requests have arrived
  req             \* per handler thread: the handler's locals and position

vars == <<cfg, inventory, runtimeChanges, store, lastWrite, listed, started,
          req>>

NoResp == [status |-> 0, kind |-> "none", msg |-> <<>>]

Idle ==
  [kind |-> "idle", pc |-> "idle", body |-> None, mac |-> NoMac,
   containers |-> <<>>, container |-> None, clients |-> None,
   existing |-> None, router_list |-> {}, calls |-> <<>>, resp |-> NoResp]

\* One outbound call as the handler issued it. to: "runtime" | "controller";
\* result: the HTTP status (0: no response; for the runtime 200 | 0);
\* data: the list the call returned; id/payload: the write's target and body.
Call(to, op, result, data, id, payload) ==
  [to |-> to, op |-> op, result |-> result, data |-> data, id |-> id,
   payload |-> payload]

\* jsonify({...}), status: a handler's return value.
Resp(status, kind, msg) == [status |-> status, kind |-> kind, msg |-> msg]

\* The ids the controller assigns to created records.
NewIds == <<"n1", "n2", "n3", "n4", "n5", "n6", "n7", "n8", "n9">>

\* The controller applying an accepted PUT rest/user/{id}: the record with
\* that id becomes the payload.
ControllerPut(data, id, payload) ==
  [i \in DOMAIN data |->
     IF Get(data[i], "_id") = id THEN payload ELSE data[i]]

\* The controller applying an accepted POST rest/user: a new record, with a
\* fresh id, at the end of the list.
ControllerPost(data, payload) ==
  Append(data, Merge(payload, [_id |-> NewIds[Len(data) + 1]]))

Init ==
  /\ cfg \in Configs
  /\ inventory \in Inventories
  /\ runtimeChanges = 0
  /\ store \in Stores
  /\ lastWrite = None
  /\ listed = {}
  /\ started = 0
  /\ req = [r \in Reqs |-> Idle]

\* A handler returning: the response is set and the request is over.
Return(r, resp, calls) ==
  req' = [req EXCEPT ![r].pc = "done", ![r].resp = resp, ![r].calls = calls]

\* The handler's except clauses for an exception raised by a controller
\* call whose result was res. api_status: every exception is a 502.
\* api_apply: requests.HTTPError mirrors the upstream status, anything else
\* (no response at all) is a 502.
UpstreamError(kind, res) ==
  IF kind = "status" THEN Resp(502, "unable_to_reach", <<res>>)
  ELSE IF res # 0 THEN Resp(res, "http_error", <<res>>)
  ELSE Resp(502, "error", <<res>>)

\* A request arrives at a free handler thread (the lowest-numbered thread
\* serves the first request).
Arrives(r) ==
  /\ req[r].pc \in {"idle", "done"}
  /\ \A q \in Reqs : q < r => req[q].pc # "idle"
  /\ started < MaxReqs
  /\ started' = started + 1

\* api_status() up to the first outbound call.
StatusStart(r) ==
  /\ Arrives(r)
  /\ IF ensure_configured(cfg)
       THEN req' = [req EXCEPT ![r] =
                      [Idle EXCEPT !.kind = "status", !.pc = "done",
                         !.resp = Resp(500, "not_configured", <<>>)]]
       ELSE req' = [req EXCEPT ![r] =
                      [Idle EXCEPT !.kind = "status", !.pc = "inventory"]]
  /\ UNCHANGED <<cfg, inventory, runtimeChanges, store, lastWrite, listed>>

\* api_apply(), "body = request.get_json(force=True, silent=True) or {}" and
\* "mac = (body.get('mac') or '').lower()": the exception raised
\* ("AttributeError", from .get on a value that is not a dict or from .lower
\* on a truthy value that is not a string) or the lower-cased MAC. A falsy
\* body or a falsy mac of any type is replaced by the empty value first.
ParseMac(body) ==
  IF body.json = "nondict" THEN [err |-> "AttributeError", mac |-> NoMac]
  ELSE IF body.json = "none" THEN [err |-> "", mac |-> NoMac]
  ELSE IF body.macv = "truthy" THEN [err |-> "AttributeError", mac |-> NoMac]
  ELSE IF body.macv = "string" THEN [err |-> "", mac |-> Lower(body.mac)]
  ELSE [err |-> "", mac |-> NoMac]

\* api_apply(), "if not mac".
MacMissing(mac) == mac = NoMac

\* api_apply() up to the first outbound call.
ApplyStart(r) ==
  /\ Arrives(r)
  /\ \E body \in Bodies :
       LET parsed == ParseMac(body)
           base == [Idle EXCEPT !.kind = "apply", !.body = Some(body)]
       IN req' = [req EXCEPT ![r] =
            IF ensure_configured(cfg)
              THEN [base EXCEPT !.pc = "done",
                                !.resp = Resp(500, "not_configured", <<>>)]
            ELSE IF parsed.err # ""
              THEN [base EXCEPT !.pc = "done",
                                !.resp = Resp(500, "unhandled", <<parsed.err>>)]
            ELSE IF MacMissing(parsed.mac)
              THEN [base EXCEPT !.pc = "done",
                                !.resp = Resp(400, "mac_required", <<>>)]
            ELSE [base EXCEPT !.pc = "inventory", !.mac = parsed.mac]]
  /\ UNCHANGED <<cfg, inventory, runtimeChanges, store, lastWrite, listed>>

\* Mutant of DockerList: the list another request has read is reused.
DockerListCached(r) ==
  IF \E q \in Reqs \ {r} : \E i \in DOMAIN req[q].calls :
       req[q].calls[i].to = "runtime" /\ req[q].calls[i].result = 200
    THEN LET q == CHOOSE q \in Reqs \ {r} : \E i \in DOMAIN req[q].calls :
                    req[q].calls[i].to = "runtime"
                    /\ req[q].calls[i].result = 200
         IN req[q].calls[1].data
    ELSE inventory

\* client.containers.list() as called inside request r: the runtime's
\* answer at the moment of the call.
DockerList(r) == inventory

\* get_containers() and, in api_apply, the lookup of the requested MAC. The
\* call sits outside the handler's try block, so a runtime that cannot be
\* reached raises out of the view function (the framework answers 500).
GetContainers(r) ==
  /\ req[r].pc = "inventory"
  /\ \E up \in BOOLEAN :
       IF ~up
         THEN Return(r, Resp(500, "unhandled", <<"DockerException">>),
                     Append(req[r].calls,
                            Call("runtime", "list", 0, <<>>, "", None)))
         ELSE LET raw == DockerList(r)
                  containers == ContainerList(raw)
                  container == Lookup(ContainerIndex(containers), req[r].mac)
                  calls == Append(req[r].calls,
                                  Call("runtime", "list", 200, raw, "", None))
              IN IF req[r].kind = "apply" /\ IsNone(container)
                   THEN req' = [req EXCEPT
                          ![r].pc = "done", ![r].containers = containers,
                          ![r].calls = calls,
                          ![r].resp = Resp(404, "no_container", <<req[r].mac>>)]
                   ELSE req' = [req EXCEPT
                          ![r].pc = "login", ![r].containers = containers,
                          ![r].container = container, ![r].calls = calls]
  /\ UNCHANGED <<cfg, inventory, runtimeChanges, store, lastWrite, listed,
                 started>>

\* build_session() and login(). With an API key login() returns at once and
\* sends nothing. Otherwise it sends one POST /api/auth/login; a transport
\* failure or an error status raises and ends the request.
Login(r) ==
  /\ req[r].pc = "login"
  /\ IF cfg.api_key # ""
       THEN req' = [req EXCEPT ![r].pc = "login_network"]
       ELSE \E res \in UpstreamResults :
              LET calls == Append(req[r].calls,
                             Call("controller", "login", res, <<>>, "", None))
              IN IF res # 200
                   THEN Return(r, UpstreamError(req[r].kind, res), calls)
                   ELSE req' = [req EXCEPT ![r].pc = "login_network",
                                           ![r].calls = calls]
  /\ UNCHANGED <<cfg, inventory, runtimeChanges, store, lastWrite, listed,
                 started>>

\* The handler's guarded login_network(). With an API key it returns at once
\* and sends nothing. Otherwise it sends one POST /proxy/network/api/login
\* inside "try: ... except Exception: pass", so its failure is swallowed and
\* the handler goes on to the listing.
LoginNetwork(r) ==
  /\ req[r].pc = "login_network"
  /\ IF cfg.api_key # ""
       THEN req' = [req EXCEPT ![r].pc = "list"]
       ELSE \E res \in UpstreamResults :
              req' = [req EXCEPT
                        ![r].pc = "list",
                        ![r].calls = Append(@, Call("controller",
                                       "login_network", res, <<>>, "", None))]
  /\ UNCHANGED <<cfg, inventory, runtimeChanges, store, lastWrite, listed,
                 started>>

\* fetch_clients(): one GET rest/user. In api_status the handler then
\* builds router_list and returns 200; in api_apply it looks the MAC up.
FetchClients(r) ==
  /\ req[r].pc = "list"
  /\ \E res \in UpstreamResults :
       IF res # 200
         THEN /\ Return(r, UpstreamError(req[r].kind, res),
                        Append(req[r].calls,
                          Call("controller", "get_clients", res, <<>>, "",
                               None)))
              /\ UNCHANGED listed
         ELSE LET clients == fetch_clients(store)
                  calls == Append(req[r].calls,
                             Call("controller", "get_clients", 200, store, "",
                                  None))
              IN IF req[r].kind = "status"
                   THEN /\ req' = [req EXCEPT
                             ![r].pc = "done", ![r].clients = clients,
                             ![r].calls = calls,
                             ![r].router_list = RouterList(clients),
                             ![r].resp = Resp(200, "ok", <<>>)]
                        /\ listed' = listed \cup
                             {req[r].containers[i].mac :
                                i \in DOMAIN req[r].containers}
                   ELSE /\ req' = [req EXCEPT
                             ![r].pc = "upsert", ![r].clients = clients,
                             ![r].calls = calls,
                             ![r].existing = Lookup(clients, req[r].mac)]
                        /\ UNCHANGED listed
  /\ UNCHANGED <<cfg, inventory, runtimeChanges, store, lastWrite, started>>

\* Mutant of Existing: the record is looked up in the controller's list as
\* it is at the write, not in the listing the request made.
ExistingShared(r) == Lookup(fetch_clients(store), req[r].mac)

\* api_apply(), "existing = clients.get(mac)" as passed to upsert_client.
Existing(r) == req[r].existing

\* upsert_client() and the return of api_apply: the network_id check, then
\* one PUT or POST; the controller applies a write it answers with 200.
Upsert(r) ==
  /\ req[r].pc = "upsert"
  /\ LET plan == upsert_client(req[r].container[1], Existing(r), cfg)
     IN IF plan.err # ""
          THEN /\ Return(r, Resp(502, "error", plan.msg), req[r].calls)
               /\ UNCHANGED <<store, lastWrite>>
          ELSE \E res \in UpstreamResults :
                 LET call == Call("controller", plan.op, res, <<>>, plan.id,
                                  plan.payload)
                     calls == Append(req[r].calls, call)
                 IN IF res = 200
                      THEN /\ Return(r, Resp(200, "ok", plan.msg), calls)
                           /\ store' =
                                IF plan.op = "put"
                                  THEN ControllerPut(store, plan.id,
                                                     plan.payload[1])
                                  ELSE ControllerPost(store, plan.payload[1])
                           /\ lastWrite' = Some([by |-> r, call |-> call])
                      ELSE /\ Return(r, UpstreamError("apply", res), calls)
                           /\ UNCHANGED <<store, lastWrite>>
  /\ UNCHANGED <<cfg, inventory, runtimeChanges, listed, started>>

\* The container runtime: containers start and stop between (and during)
\* requests. The program sees the inventory only when get_containers()
\* reads it, so a change is taken when some request is about to read.
RuntimeChange ==
  /\ runtimeChanges < MaxRuntimeChanges
  /\ \E r \in Reqs : req[r].pc = "inventory"
  /\ \E inv \in Inventories \ {inventory} : inventory' = inv
  /\ runtimeChanges' = runtimeChanges + 1
  /\ UNCHANGED <<cfg, store, lastWrite, listed, started, req>>

Next ==
  \/ \E r \in Reqs : StatusStart(r)
  \/ \E r \in Reqs : ApplyStart(r)
  \/ \E r \in Reqs : GetContainers(r)
  \/ \E r \in Reqs : Login(r)
  \/ \E r \in Reqs : LoginNetwork(r)
  \/ \E r \in Reqs : FetchClients(r)
  \/ \E r \in Reqs : Upsert(r)
  \/ RuntimeChange

Spec == Init /\ [][Next]_vars

\* ------------------------------------------------------------ vocabulary
Done(r) == req[r].pc = "done"

\* The positions in a request's call list of the calls of one kind.
CallsTo(q, to) == {i \in DOMAIN q.calls : q.calls[i].to = to}
CallsOf(q, ops) == {i \in DOMAIN q.calls : q.calls[i].op \in ops}
WriteOps == {"put", "post"}

\* Case-insensitive equality, stated without lower-casing.
UpperChar(c) ==
  CASE c = "a" -> "A"
    [] c = "b" -> "B"
    [] OTHER -> c
EqIgnoreCase(a, b) ==
  /\ Len(a) = Len(b)
  /\ \A i \in DOMAIN a : UpperChar(a[i]) = UpperChar(b[i])

\* The configuration the specification calls complete: a host, and an API
\* key or a username with a password.
SpecConfigured(c) ==
  /\ c.host # ""
  /\ \/ c.api_key # ""
     \/ c.username # "" /\ c.password # ""

\* The request body carries no MAC: it is unparseable or empty, it is a JSON
\* value that is not an object (an array, a string, a number: none has a mac
\* member), or it is an object whose mac is absent, a falsy value such as
\* null, or the empty string.
MacAbsentOrEmpty(body) ==
  \/ body.json \in {"none", "nondict"}
  \/ body.json = "object" /\ body.macv \in {"absent", "falsy"}
  \/ body.json = "object" /\ body.macv = "string" /\ body.mac = NoMac

\* The lower-case MACs of the interfaces the runtime reports with both a MAC
\* and an IP.
LiveMacs(inv) ==
  {m \in {MacLower, MacOther} :
     \E i \in DOMAIN inv : /\ inv[i].MacAddress # NoMac
                           /\ inv[i].IPAddress # ""
                           /\ EqIgnoreCase(inv[i].MacAddress, m)}

\* ------------------------------------------------------------ C1
\* C1 (as claimed): a finished status or apply request carries the 500
\* "not configured" error exactly when the host is absent or there is neither
\* an API key nor a username with a password, and then it has made no call.
C1_NotConfiguredIffNoAuthMaterial ==
  \A r \in Reqs :
    Done(r) =>
      /\ (req[r].resp.kind = "not_configured") <=> ~SpecConfigured(cfg)
      /\ req[r].resp.kind = "not_configured" =>
           req[r].resp.status = 500 /\ req[r].calls = <<>>

\* ------------------------------------------------------------ C2
\* C2 (as claimed): every finished apply request whose body has an absent or
\* empty mac was answered 400 and made no call.
C2_EmptyMacAlways400 ==
  \A r \in Reqs :
    (Done(r) /\ req[r].kind = "apply" /\ MacAbsentOrEmpty(req[r].body[1])) =>
      req[r].resp.status = 400 /\ req[r].calls = <<>>

\* ------------------------------------------------------------ C3
\* C3: the step in which an apply request reads the inventory decides on the
\* runtime's list as it is at that step: a MAC that is not in it ends the
\* request with 404 and without any controller call, a MAC that is in it
\* lets the request go on with the entry just read.
C3_FreshInventory ==
  [][\A r \in Reqs :
       ( /\ req[r].kind = "apply" /\ req[r].pc = "inventory"
         /\ req'[r].pc # "inventory"
         /\ req'[r].calls[Len(req'[r].calls)].result = 200 ) =>
         IF req[r].mac \in LiveMacs(inventory)
           THEN /\ req'[r].pc = "login"
                /\ req'[r].container[1].mac = req[r].mac
           ELSE /\ req'[r].pc = "done"
                /\ req'[r].resp.status = 404
                /\ CallsTo(req'[r], "controller") = {}]_vars

\* An apply request answered 404 for a MAC that an earlier status response
\* listed among the containers.
C3_Witness ==
  \E r \in Reqs :
    /\ Done(r) /\ req[r].kind = "apply" /\ req[r].resp.status = 404
    /\ req[r].mac \in listed
    /\ CallsTo(req[r], "controller") = {}

\* ------------------------------------------------------------ C4
\* The write calls of a finished apply request are as the claim describes
\* them, the create payload carrying the fixed-IP flag under the key flag.
WritesAsClaimed(q, flag) ==
  LET writes == CallsOf(q, WriteOps)
      ok == q.resp.status = 200
      known == q.mac \in DOMAIN q.clients
  IN /\ ok => Cardinality(writes) = 1
     /\ Cardinality(writes) <= 1
     /\ \A i \in writes :
          LET w == q.calls[i]
          IN IF known
               THEN /\ w.op = "put"
                    /\ w.id = q.clients[q.mac]["_id"]
                    /\ ok => q.resp.msg =
                         <<"Updated", q.mac, q.container[1].name,
                           q.container[1].ip>>
               ELSE /\ w.op = "post"
                    /\ DOMAIN w.payload[1] =
                         {"mac", "name", "fixed_ip", flag, "network_id"}
                    /\ w.payload[1]["mac"] = q.mac
                    /\ w.payload[1]["name"] = q.container[1].name
                    /\ w.payload[1]["fixed_ip"] = q.container[1].ip
                    /\ w.payload[1][flag] = TRUE
                    /\ w.payload[1]["network_id"] = cfg.network_id
                    /\ ok => q.resp.msg =
                         <<"Created", q.mac, q.container[1].name,
                           q.container[1].ip>>

\* C4 (as claimed): a successful apply has issued exactly one write and a
\* failed one at most one; the write is a PUT to the listed client's URL when
\* the listing of the same request has the MAC, otherwise a POST of exactly
\* {mac, name, fixed_ip, use_fixed_ip: true, network_id}; the message says
\* Updated for the PUT and Created for the POST.
C4_OneWriteUseFixedIp ==
  \A r \in Reqs :
    (Done(r) /\ req[r].kind = "apply") => WritesAsClaimed(req[r], "use_fixed_ip")

\* C4 (amended): the same, with the flag sent under the key use_fixedip.
C4_OneWrite ==
  \A r \in Reqs :
    (Done(r) /\ req[r].kind = "apply") => WritesAsClaimed(req[r], "use_fixedip")

\* A successful create and, in the other handler thread, a successful update.
C4_Witness ==
  \E r, q \in Reqs :
    /\ Done(r) /\ req[r].kind = "apply" /\ req[r].resp.status = 200
    /\ req[r].resp.msg[1] = "Created" /\ CallsOf(req[r], {"post"}) # {}
    /\ Done(q) /\ req[q].kind = "apply" /\ req[q].resp.status = 200
    /\ req[q].resp.msg[1] = "Updated" /\ CallsOf(req[q], {"put"}) # {}

\* ------------------------------------------------------------ C5
\* The PUT payloads of an apply request: every key of the existing record
\* outside the four imposed ones keeps its value, the four imposed keys (the
\* flag under the key flag) carry the desired values, and the record the
\* listing returned is still what the request holds as existing.
MergeAsClaimed(q, flag) ==
  \A i \in CallsOf(q, {"put"}) :
    LET payload == q.calls[i].payload[1]
        existing == q.clients[q.mac]
        imposed == {"name", "fixed_ip", flag, "network_id"}
    IN /\ \A k \in (DOMAIN existing) \ imposed :
            k \in DOMAIN payload /\ payload[k] = existing[k]
       /\ imposed \subseteq DOMAIN payload
       /\ payload["name"] = q.container[1].name
       /\ payload["fixed_ip"] = q.container[1].ip
       /\ payload[flag] = TRUE
       /\ payload["network_id"] =
            ( IF Get(existing, "network_id") # "" THEN existing["network_id"]
              ELSE IF Get(existing, "network") # "" THEN existing["network"]
              ELSE cfg.network_id )
       /\ q.existing = <<existing>>

\* C5 (as claimed): a PUT payload keeps every field of the existing record
\* whose key is not name, fixed_ip, use_fixed_ip or network_id, and carries
\* the desired values under those four keys; the existing record is not
\* mutated.
C5_MergeUseFixedIp ==
  \A r \in Reqs : req[r].kind = "apply" => MergeAsClaimed(req[r], "use_fixed_ip")

\* C5 (amended): the same, the four imposed keys being name, fixed_ip,
\* use_fixedip and network_id.
C5_Merge ==
  \A r \in Reqs : req[r].kind = "apply" => MergeAsClaimed(req[r], "use_fixedip")

\* An accepted update of a record that has a field outside the imposed ones
\* (note) and a flag that the update turns on.
C5_Witness ==
  \E r \in Reqs :
    /\ Done(r) /\ req[r].kind = "apply" /\ req[r].resp.status = 200
    /\ \E i \in CallsOf(req[r], {"put"}) :
         /\ "note" \in DOMAIN req[r].existing[1]
         /\ "use_fixedip" \in DOMAIN req[r].existing[1]
         /\ req[r].existing[1]["use_fixedip"] = FALSE
         /\ req[r].calls[i].payload[1]["note"] = "keep-me"
         /\ req[r].calls[i].payload[1]["use_fixedip"] = TRUE

\* ------------------------------------------------------------ C6
\* No network_id resolves for the request at the upsert step.
Unresolvable(q) ==
  /\ OptGet(q.existing, "network_id") = ""
  /\ OptGet(q.existing, "network") = ""
  /\ cfg.network_id = ""

\* C6: the upsert step of a request for which no network_id resolves sends
\* nothing, leaves the controller's records as they are and answers 502 with
\* a message that names the MAC.
C6_NoNetworkIdNoWrite ==
  [][\A r \in Reqs :
       (req[r].pc = "upsert" /\ req'[r].pc # "upsert" /\ Unresolvable(req[r]))
         => /\ store' = store
            /\ req'[r].calls = req[r].calls
            /\ CallsOf(req'[r], WriteOps) = {}
            /\ req'[r].resp.status = 502
            /\ Len(req'[r].resp.msg) = 2
            /\ req'[r].resp.msg[2] = req[r].mac]_vars

\* A request that failed so for a controller record that has neither
\* network_id nor network.
C6_Witness ==
  \E r \in Reqs :
    /\ Done(r) /\ req[r].kind = "apply" /\ req[r].resp.status = 502
    /\ req[r].resp.msg = <<"network_id is required", req[r].mac>>
    /\ ~IsNone(req[r].existing)

\* ------------------------------------------------------------ C7
\* C7 (as claimed): a finished status or apply request that found the
\* container runtime unreachable tried it once, was answered 502 and made no
\* controller call.
C7_RuntimeDown502 ==
  \A r \in Reqs :
    ( /\ Done(r)
      /\ \E i \in CallsTo(req[r], "runtime") : req[r].calls[i].result = 0 ) =>
      /\ Cardinality(CallsTo(req[r], "runtime")) = 1
      /\ CallsTo(req[r], "controller") = {}
      /\ req[r].resp.status = 502

\* ------------------------------------------------------------ C8
\* The response is an error response.
IsError(q) == q.resp.status # 200

\* A failure the claim lets end the request: the request's own validation
\* (400, 404), the runtime, a failed primary login, listing or write, or the
\* upsert refusing before its write.
FailedStep(q) ==
  \/ q.resp.status \in {400, 404}
  \/ q.resp.kind = "unhandled"
  \/ \E i \in CallsOf(q, {"login", "get_clients", "put", "post"}) :
       q.calls[i].result # 200
  \/ q.pc = "done" /\ ~IsNone(q.container) /\ q.clients # None
       /\ CallsOf(q, WriteOps) = {}

\* C8 (as claimed): under a configuration with a host, a username and a
\* password, a finished status or apply request has attempted the secondary
\* login only after a successful primary login, has gone on to the client
\* listing after every secondary login whatever its result, and carries an
\* error response only if a step other than the secondary login failed.
C8_SecondaryLoginAbsorbed ==
  \A r \in Reqs :
    (Done(r) /\ cfg.host # "" /\ cfg.username # "" /\ cfg.password # "") =>
      /\ \A i \in CallsOf(req[r], {"login_network"}) :
           /\ \E j \in CallsOf(req[r], {"login"}) :
                j < i /\ req[r].calls[j].result = 200
           /\ \E j \in CallsOf(req[r], {"get_clients"}) : j > i
      /\ IsError(req[r]) => FailedStep(req[r])

\* ------------------------------------------------------------ C9
\* C9: in an apply request every key of the container lookup and of the
\* client lookup is lower case, the container selected has the requested MAC
\* ignoring case, and when the listing holds a record whose MAC equals the
\* requested one ignoring case the request holds such a record as existing
\* and sends no create.
C9_CaseInsensitiveMatch ==
  \A r \in Reqs :
    req[r].kind = "apply" =>
      LET q == req[r]
          asked == q.body[1].mac
      IN /\ \A i \in DOMAIN q.containers :
              \A j \in DOMAIN q.containers[i].mac :
                q.containers[i].mac[j] \in {"a", "b"}
         /\ \A k \in DOMAIN q.clients :
              \A j \in DOMAIN k : k[j] \in {"a", "b"}
         /\ ~IsNone(q.container) =>
              EqIgnoreCase(q.container[1].mac, asked)
         /\ \A i \in CallsOf(q, {"get_clients"}) :
              LET data == q.calls[i].data
              IN ( /\ q.calls[i].result = 200
                   /\ \E n \in DOMAIN data :
                        /\ "mac" \in DOMAIN data[n]
                        /\ EqIgnoreCase(data[n]["mac"], asked) ) =>
                   /\ ~IsNone(q.existing)
                   /\ EqIgnoreCase(q.existing[1]["mac"], asked)
                   /\ CallsOf(q, {"post"}) = {}

\* An accepted update where the request, the runtime and the controller
\* spell the MAC in three different ways.
C9_Witness ==
  \E r \in Reqs :
    /\ Done(r) /\ req[r].kind = "apply" /\ req[r].resp.status = 200
    /\ req[r].body[1].mac = MacMixed
    /\ ~IsNone(req[r].existing)
    /\ req[r].existing = <<req[r].clients[MacLower]>>
    /\ req[r].existing[1]["mac"] = MacUpper
    /\ \E i \in CallsTo(req[r], "runtime") :
         \E n \in DOMAIN req[r].calls[i].data :
           req[r].calls[i].data[n].MacAddress = MacLower
    /\ CallsOf(req[r], {"put"}) # {}

\* ------------------------------------------------------------ C10
\* The record a listing would now return for a MAC: the last record of the
\* controller's list whose MAC equals it ignoring case.
Reservation(m) ==
  LET same == {n \in DOMAIN store :
                 "mac" \in DOMAIN store[n] /\ EqIgnoreCase(store[n]["mac"], m)}
  IN store[MaxOf(same)]

\* C10: two apply requests for the same MAC that both listed the controller's
\* clients before either wrote, finding no client, have both sent their
\* create, each with its own container's name and IP; the write the
\* controller accepted last is the create of one of the two, and the
\* controller's record for the MAC carries that write's payload.
C10_BothWriteLastWins ==
  \A r, q \in Reqs :
    ( /\ r # q /\ req[r].kind = "apply" /\ req[q].kind = "apply"
      /\ Done(r) /\ Done(q) /\ req[r].mac = req[q].mac
      /\ req[r].resp.status = 200 /\ req[q].resp.status = 200
      /\ CallsOf(req[r], {"get_clients"}) # {}
      /\ CallsOf(req[q], {"get_clients"}) # {}
      /\ IsNone(req[r].existing) /\ IsNone(req[q].existing) ) =>
      /\ \E i \in CallsOf(req[r], {"post"}) :
           /\ req[r].calls[i].result = 200
           /\ req[r].calls[i].payload[1]["mac"] = req[r].mac
           /\ req[r].calls[i].payload[1]["name"] = req[r].container[1].name
           /\ req[r].calls[i].payload[1]["fixed_ip"] = req[r].container[1].ip
      /\ ~IsNone(lastWrite)
      /\ lastWrite[1].by \in {r, q}
      /\ LET last == req[lastWrite[1].by]
             payload == lastWrite[1].call.payload[1]
             now == Reservation(req[r].mac)
         IN /\ last.calls[Len(last.calls)] = lastWrite[1].call
            /\ \A k \in DOMAIN payload :
                 k \in DOMAIN now /\ now[k] = payload[k]

\* Both requests created a record for the same MAC, with different IPs, and
\* the controller's record for it is the later one.
C10_Witness ==
  \E r, q \in Reqs :
    /\ r # q /\ Done(r) /\ Done(q)
    /\ req[r].kind = "apply" /\ req[q].kind = "apply"
    /\ req[r].mac = req[q].mac
    /\ IsNone(req[r].existing) /\ IsNone(req[q].existing)
    /\ req[r].resp.status = 200 /\ req[q].resp.status = 200
    /\ req[r].resp.msg[1] = "Created" /\ req[q].resp.msg[1] = "Created"
    /\ req[r].container[1].ip # req[q].container[1].ip
    /\ lastWrite[1].by = q
    /\ Reservation(req[q].mac)["fixed_ip"] = req[q].container[1].ip
    /\ Cardinality({n \in DOMAIN store :
                      "mac" \in DOMAIN store[n]
                      /\ store[n]["mac"] = req[q].mac}) = 2

====
